---- MODULE Spec2Model ----
(***************************************************************************)
(* Pinocchio vault: a program with two instructions, Deposit (opcode 0)    *)
(* and Withdraw (opcode 1), over a ledger of accounts.  Every request is   *)
(* processed atomically by the host, so one request is one step.           *)
(*                                                                         *)
(* Public keys are modelled as naturals.  The lamports of all accounts     *)
(* are conserved by every step and their initial sum is far below 2^64,    *)
(* so the u64 arithmetic of the transfer never wraps.                      *)
(***************************************************************************)
EXTENDS Integers, Sequences, FiniteSets, TLC

\* ---------------------------------------------------------------- bounds
\* Lamports each wallet holds initially.
InitLamports == 300
\* Largest bump tried by the derivation (u8::MAX in the runtime).
MaxBump == 3

\* Keypair accounts that may sign requests.
Wallets == {1, 2}
\* One more account, not derived from anything: a data account of this
\* program (controlled by ID, not by the system program) that never signs.
Strays == {3}
\* Lamports the stray account holds.
StrayLamports == 5
\* Amounts the deposit payloads encode.
Amounts == {0, 1, 258, 600}

\* ------------------------------------------------------------- constants
\* lib.rs: pub const ID
ID == 9
\* pinocchio_system::ID, the controlling program of plain accounts
SYSTEM_ID == 0

\* -------------------------------------------------------------- results
Ok(v) == [ok |-> TRUE, val |-> v]
Err(e) == [ok |-> FALSE, err |-> e]

\* ----------------------------------------------------------- derivation
\* The hash behind create_program_address, modelled as an injective
\* encoding of (program id, seeds): distinct seed sequences and distinct
\* program ids give distinct addresses; a seed sequence that is not
\* (tag, key, bump) lands outside every address in use.
HashSeeds(seeds, program_id) ==
    IF Len(seeds) = 3 /\ seeds[1] = "vault"
    THEN 1000 * program_id + 10 * seeds[2] + seeds[3]
    ELSE 1000 * program_id + 999

\* Whether a candidate address is a point of the curve (an ordinary key,
\* not usable as a program address): for even keys the top bump is.
IsOnCurve(addr) == (addr % 10 = MaxBump) /\ ((addr \div 10) % 2 = 0)

Max(S) == CHOOSE x \in S : \A y \in S : y <= x

\* pinocchio::pubkey::find_program_address: the highest bump whose address
\* is off the curve, with that address.
find_program_address(seeds, program_id) ==
    LET good == {b \in 0..MaxBump :
                    ~IsOnCurve(HashSeeds(Append(seeds, b), program_id))}
        bump == Max(good)
    IN  <<HashSeeds(Append(seeds, bump), program_id), bump>>

VaultOf(k) == find_program_address(<<"vault", k>>, ID)[1]

Vaults == {VaultOf(k) : k \in Wallets}
Accounts == Wallets \cup Strays \cup Vaults

\* ------------------------------------------------------------- payloads
Pow256(i) == IF i = 0 THEN 1 ELSE
             IF i = 1 THEN 256 ELSE
             IF i = 2 THEN 65536 ELSE 16777216

\* u64::to_le_bytes, for amounts below 2^32
to_le_bytes(n) ==
    [i \in 1..8 |-> IF i <= 4 THEN (n \div Pow256(i - 1)) % 256 ELSE 0]

RECURSIVE SumBytes(_, _)
SumBytes(bytes, i) ==
    IF i > Len(bytes) THEN 0
    ELSE bytes[i] + 256 * SumBytes(bytes, i + 1)

\* u64::from_le_bytes
from_le_bytes(bytes) == SumBytes(bytes, 1)

Payloads ==
    {to_le_bytes(a) : a \in Amounts}
        \cup {SubSeq(to_le_bytes(1), 1, 7), to_le_bytes(1) \o <<1>>}

\* Raw instruction data: opcode byte followed by the payload.
InstructionData ==
    {<<0>> \o p : p \in Payloads}
        \cup {<<1>>, <<1>> \o to_le_bytes(1), <<2>>, <<2>> \o to_le_bytes(1),
              <<>>}

\* ------------------------------------------------------------- accounts
AccountInfo(k, s) == [key |-> k, is_signer |-> s]

SystemAccount == AccountInfo(SYSTEM_ID, FALSE)

\* First account: a wallet, with or without its signature.
OwnerSlots == {AccountInfo(k, s) : k \in Wallets, s \in BOOLEAN}
\* Second account: a derived vault, a stray account or a wallet.
VaultSlots == {AccountInfo(k, FALSE) : k \in Vaults \cup Strays \cup {1}}

\* Account lists: every (owner, vault) pair with the system program third,
\* the rightful pairs with a stray account third, and lists of two and of
\* four accounts.
AccountLists ==
    {<<o, v, SystemAccount>> : o \in OwnerSlots, v \in VaultSlots}
        \cup {<<AccountInfo(k, TRUE), AccountInfo(VaultOf(k), FALSE),
                AccountInfo(t, FALSE)>> : k \in Wallets, t \in Strays}
        \cup {<<AccountInfo(1, s), AccountInfo(VaultOf(1), FALSE)>> :
                s \in BOOLEAN}
        \cup {<<AccountInfo(1, s), AccountInfo(VaultOf(1), FALSE),
                SystemAccount, SystemAccount>> : s \in BOOLEAN}

\* ---------------------------------------------------------------- state
VARIABLES
    lamports,    \* ledger: balance of each account
    acctOwner,   \* ledger: controlling program of each account
    before,      \* balances when the last request arrived
    request,     \* the last request: [accounts, data]
    result,      \* its outcome: "Ok" or the ProgramError
    cpi,         \* the transfers the last request invoked
    lastDeposit  \* per wallet, the amount of its last successful Deposit

vars == <<lamports, acctOwner, before, request, result, cpi, lastDeposit>>

NoRequest == [accounts |-> <<>>, data |-> <<>>]

Init ==
    /\ lamports = [a \in Accounts |->
                      IF a \in Wallets THEN InitLamports
                      ELSE IF a \in Strays THEN StrayLamports ELSE 0]
    /\ acctOwner = [a \in Accounts |->
                       IF a \in Strays THEN ID ELSE SYSTEM_ID]
    /\ before = lamports
    /\ request = NoRequest
    /\ result = "None"
    /\ cpi = <<>>
    /\ lastDeposit = [k \in Wallets |-> 0]

\* ------------------------------------------------- the transfer primitive
\* One invocation of the system program's transfer, as the handlers see it:
\* the balances L either move atomically or stay as they are.  signers are
\* the seed sequences the caller signs with (none for a plain invoke).
\* The runtime accepts `from` as a signer when the request carries its
\* signature or when one of the seed sequences derives its address under
\* this program's id; only the system program's own accounts can be debited.
SystemTransfer(L, from, to, amount, signers) ==
    LET signed == \/ from.is_signer
                  \/ \E i \in 1..Len(signers) :
                        HashSeeds(signers[i], ID) = from.key
    IN  IF ~signed THEN Err("MissingRequiredSignature")
        ELSE IF acctOwner[from.key] # SYSTEM_ID
             THEN Err("ExternalAccountLamportSpend")
        ELSE IF L[from.key] < amount THEN Err("InsufficientFunds")
        ELSE LET debited == [L EXCEPT ![from.key] = @ - amount]
             IN  Ok([debited EXCEPT ![to.key] = @ + amount])

\* What a handler's process() hands back: the outcome, the balances and
\* the transfers it invoked.
Outcome(res, L, calls) == [result |-> res, lamports |-> L, cpi |-> calls]

\* ---------------------------------------------------------------- deposit
\* Variant: the signer check of the deposit accounts is left out.
DepositAccounts_try_from_NoSigner(accounts) ==
    IF Len(accounts) # 3 THEN Err("NotEnoughAccountKeys")
    ELSE LET owner == accounts[1]
             vault == accounts[2]
         IN  IF acctOwner[vault.key] # SYSTEM_ID
             THEN Err("InvalidAccountOwner")
             ELSE IF lamports[vault.key] # 0 THEN Err("InvalidAccountData")
             ELSE IF vault.key #
                       find_program_address(<<"vault", owner.key>>, ID)[1]
                  THEN Err("InvalidAccountOwner")
             ELSE Ok([owner |-> owner, vault |-> vault])

\* Variant: the zero-balance check of the deposit accounts is left out.
DepositAccounts_try_from_NoEmptyCheck(accounts) ==
    IF Len(accounts) # 3 THEN Err("NotEnoughAccountKeys")
    ELSE LET owner == accounts[1]
             vault == accounts[2]
         IN  IF ~owner.is_signer THEN Err("InvalidAccountOwner")
             ELSE IF acctOwner[vault.key] # SYSTEM_ID
                  THEN Err("InvalidAccountOwner")
             ELSE IF vault.key #
                       find_program_address(<<"vault", owner.key>>, ID)[1]
                  THEN Err("InvalidAccountOwner")
             ELSE Ok([owner |-> owner, vault |-> vault])

\* Variant: the address check comes before the zero-balance check.
DepositAccounts_try_from_AddressFirst(accounts) ==
    IF Len(accounts) # 3 THEN Err("NotEnoughAccountKeys")
    ELSE LET owner == accounts[1]
             vault == accounts[2]
         IN  IF ~owner.is_signer THEN Err("InvalidAccountOwner")
             ELSE IF acctOwner[vault.key] # SYSTEM_ID
                  THEN Err("InvalidAccountOwner")
             ELSE IF vault.key #
                       find_program_address(<<"vault", owner.key>>, ID)[1]
                  THEN Err("InvalidAccountOwner")
             ELSE IF lamports[vault.key] # 0 THEN Err("InvalidAccountData")
             ELSE Ok([owner |-> owner, vault |-> vault])

\* Variant: the third account must be the system program.
DepositAccounts_try_from_CheckThird(accounts) ==
    IF Len(accounts) # 3 THEN Err("NotEnoughAccountKeys")
    ELSE LET owner == accounts[1]
             vault == accounts[2]
         IN  IF ~owner.is_signer THEN Err("InvalidAccountOwner")
             ELSE IF accounts[3].key # SYSTEM_ID
                  THEN Err("IncorrectProgramId")
             ELSE IF acctOwner[vault.key] # SYSTEM_ID
                  THEN Err("InvalidAccountOwner")
             ELSE IF lamports[vault.key] # 0 THEN Err("InvalidAccountData")
             ELSE IF vault.key #
                       find_program_address(<<"vault", owner.key>>, ID)[1]
                  THEN Err("InvalidAccountOwner")
             ELSE Ok([owner |-> owner, vault |-> vault])

\* Variant: the vault is not compared with the derived address.
DepositAccounts_try_from_NoAddress(accounts) ==
    IF Len(accounts) # 3 THEN Err("NotEnoughAccountKeys")
    ELSE LET owner == accounts[1]
             vault == accounts[2]
         IN  IF ~owner.is_signer THEN Err("InvalidAccountOwner")
             ELSE IF acctOwner[vault.key] # SYSTEM_ID
                  THEN Err("InvalidAccountOwner")
             ELSE IF lamports[vault.key] # 0 THEN Err("InvalidAccountData")
             ELSE Ok([owner |-> owner, vault |-> vault])

\* Variant: an owner that has deposited once is refused ever after.
DepositAccounts_try_from_OnceOnly(accounts) ==
    IF Len(accounts) # 3 THEN Err("NotEnoughAccountKeys")
    ELSE LET owner == accounts[1]
             vault == accounts[2]
         IN  IF ~owner.is_signer THEN Err("InvalidAccountOwner")
             ELSE IF acctOwner[vault.key] # SYSTEM_ID
                  THEN Err("InvalidAccountOwner")
             ELSE IF lamports[vault.key] # 0 \/ lastDeposit[owner.key] # 0
                  THEN Err("InvalidAccountData")
             ELSE IF vault.key #
                       find_program_address(<<"vault", owner.key>>, ID)[1]
                  THEN Err("InvalidAccountOwner")
             ELSE Ok([owner |-> owner, vault |-> vault])

\* DepositAccounts::try_from
DepositAccounts_try_from(accounts) ==
    IF Len(accounts) # 3 THEN Err("NotEnoughAccountKeys")
    ELSE LET owner == accounts[1]
             vault == accounts[2]
         IN  IF ~owner.is_signer THEN Err("InvalidAccountOwner")
             ELSE IF acctOwner[vault.key] # SYSTEM_ID
                  THEN Err("InvalidAccountOwner")
             ELSE IF lamports[vault.key] # 0 THEN Err("InvalidAccountData")
             ELSE IF vault.key #
                       find_program_address(<<"vault", owner.key>>, ID)[1]
                  THEN Err("InvalidAccountOwner")
             ELSE Ok([owner |-> owner, vault |-> vault])

\* Variant: only the first byte of the payload is decoded.
DepositInstructionData_try_from_FirstByte(data) ==
    IF Len(data) # 8 THEN Err("InvalidInstructionData")
    ELSE LET amount == data[1]
         IN  IF amount = 0 THEN Err("InvalidInstructionData")
             ELSE Ok([amount |-> amount])

\* Variant: a zero amount is accepted.
DepositInstructionData_try_from_ZeroOk(data) ==
    IF Len(data) # 8 THEN Err("InvalidInstructionData")
    ELSE Ok([amount |-> from_le_bytes(data)])

\* DepositInstructionData::try_from
DepositInstructionData_try_from(data) ==
    IF Len(data) # 8 THEN Err("InvalidInstructionData")
    ELSE LET amount == from_le_bytes(data)
         IN  IF amount = 0 THEN Err("InvalidInstructionData")
             ELSE Ok([amount |-> amount])

\* Variant: the payload is validated before the accounts.
Deposit_try_from_PayloadFirst(data, accounts) ==
    LET instruction_datas == DepositInstructionData_try_from(data)
    IN  IF ~instruction_datas.ok THEN instruction_datas
        ELSE LET accs == DepositAccounts_try_from(accounts)
             IN  IF ~accs.ok THEN accs
                 ELSE Ok([accounts |-> accs.val,
                          instruction_datas |-> instruction_datas.val])

\* Deposit::try_from: accounts first, then the payload
Deposit_try_from(data, accounts) ==
    LET accs == DepositAccounts_try_from(accounts)
    IN  IF ~accs.ok THEN accs
        ELSE LET instruction_datas == DepositInstructionData_try_from(data)
             IN  IF ~instruction_datas.ok THEN instruction_datas
                 ELSE Ok([accounts |-> accs.val,
                          instruction_datas |-> instruction_datas.val])

\* Deposit::process: one plain transfer owner -> vault of the payload amount
Deposit_process(self) ==
    LET call == [from |-> self.accounts.owner.key,
                 to |-> self.accounts.vault.key,
                 lamports |-> self.instruction_datas.amount,
                 signers |-> <<>>]
        t == SystemTransfer(lamports, self.accounts.owner,
                            self.accounts.vault,
                            self.instruction_datas.amount, <<>>)
    IN  IF t.ok THEN Outcome("Ok", t.val, <<call>>)
        ELSE Outcome(t.err, lamports, <<call>>)

\* --------------------------------------------------------------- withdraw
\* Variant: the signer check of the withdraw accounts is left out.
WithdrawAccounts_try_from_NoSigner(accounts) ==
    IF Len(accounts) # 3 THEN Err("NotEnoughAccountKeys")
    ELSE LET owner == accounts[1]
             vault == accounts[2]
         IN  IF acctOwner[vault.key] # SYSTEM_ID
             THEN Err("InvalidAccountOwner")
             ELSE LET pda == find_program_address(<<"vault", owner.key>>, ID)
                  IN  IF pda[1] # vault.key THEN Err("InvalidAccountOwner")
                      ELSE Ok([owner |-> owner, vault |-> vault,
                               bumps |-> <<pda[2]>>])

\* Variant: the vault is not compared with the derived address.
WithdrawAccounts_try_from_NoAddress(accounts) ==
    IF Len(accounts) # 3 THEN Err("NotEnoughAccountKeys")
    ELSE LET owner == accounts[1]
             vault == accounts[2]
         IN  IF ~owner.is_signer THEN Err("InvalidAccountOwner")
             ELSE IF acctOwner[vault.key] # SYSTEM_ID
                  THEN Err("InvalidAccountOwner")
             ELSE LET pda == find_program_address(<<"vault", owner.key>>, ID)
                  IN  Ok([owner |-> owner, vault |-> vault,
                          bumps |-> <<pda[2]>>])

\* Variant: the vault must be controlled by this program.
WithdrawAccounts_try_from_ProgramOwned(accounts) ==
    IF Len(accounts) # 3 THEN Err("NotEnoughAccountKeys")
    ELSE LET owner == accounts[1]
             vault == accounts[2]
         IN  IF ~owner.is_signer THEN Err("InvalidAccountOwner")
             ELSE IF acctOwner[vault.key] # ID
                  THEN Err("InvalidAccountOwner")
             ELSE LET pda == find_program_address(<<"vault", owner.key>>, ID)
                  IN  IF pda[1] # vault.key THEN Err("InvalidAccountOwner")
                      ELSE Ok([owner |-> owner, vault |-> vault,
                               bumps |-> <<pda[2]>>])

\* Variant: an empty vault is refused.
WithdrawAccounts_try_from_RequireFunds(accounts) ==
    IF Len(accounts) # 3 THEN Err("NotEnoughAccountKeys")
    ELSE LET owner == accounts[1]
             vault == accounts[2]
         IN  IF ~owner.is_signer THEN Err("InvalidAccountOwner")
             ELSE IF acctOwner[vault.key] # SYSTEM_ID
                  THEN Err("InvalidAccountOwner")
             ELSE IF lamports[vault.key] = 0 THEN Err("InsufficientFunds")
             ELSE LET pda == find_program_address(<<"vault", owner.key>>, ID)
                  IN  IF pda[1] # vault.key THEN Err("InvalidAccountOwner")
                      ELSE Ok([owner |-> owner, vault |-> vault,
                               bumps |-> <<pda[2]>>])

\* WithdrawAccounts::try_from
WithdrawAccounts_try_from(accounts) ==
    IF Len(accounts) # 3 THEN Err("NotEnoughAccountKeys")
    ELSE LET owner == accounts[1]
             vault == accounts[2]
         IN  IF ~owner.is_signer THEN Err("InvalidAccountOwner")
             ELSE IF acctOwner[vault.key] # SYSTEM_ID
                  THEN Err("InvalidAccountOwner")
             ELSE LET pda == find_program_address(<<"vault", owner.key>>, ID)
                  IN  IF pda[1] # vault.key THEN Err("InvalidAccountOwner")
                      ELSE Ok([owner |-> owner, vault |-> vault,
                               bumps |-> <<pda[2]>>])

\* Withdraw::try_from
Withdraw_try_from(accounts) ==
    LET accs == WithdrawAccounts_try_from(accounts)
    IN  IF ~accs.ok THEN accs ELSE Ok([accounts |-> accs.val])

\* Variant: one lamport is kept back in the vault.
Withdraw_process_KeepOne(self) ==
    LET seeds == <<"vault", self.accounts.owner.key>> \o self.accounts.bumps
        signers == <<seeds>>
        balance == lamports[self.accounts.vault.key]
        amount == IF balance > 1 THEN balance - 1 ELSE balance
        call == [from |-> self.accounts.vault.key,
                 to |-> self.accounts.owner.key,
                 lamports |-> amount,
                 signers |-> signers]
        t == SystemTransfer(lamports, self.accounts.vault,
                            self.accounts.owner, amount, signers)
    IN  IF t.ok THEN Outcome("Ok", t.val, <<call>>)
        ELSE Outcome(t.err, lamports, <<call>>)

\* Variant: the seeds carry the top bump instead of the derived one.
Withdraw_process_TopBump(self) ==
    LET seeds == <<"vault", self.accounts.owner.key, MaxBump>>
        signers == <<seeds>>
        amount == lamports[self.accounts.vault.key]
        call == [from |-> self.accounts.vault.key,
                 to |-> self.accounts.owner.key,
                 lamports |-> amount,
                 signers |-> signers]
        t == SystemTransfer(lamports, self.accounts.vault,
                            self.accounts.owner, amount, signers)
    IN  IF t.ok THEN Outcome("Ok", t.val, <<call>>)
        ELSE Outcome(t.err, lamports, <<call>>)

\* Withdraw::process: one signed transfer vault -> owner of all the vault's
\* lamports, signed with the seeds (tag, owner key, bump)
Withdraw_process(self) ==
    LET seeds == <<"vault", self.accounts.owner.key>> \o self.accounts.bumps
        signers == <<seeds>>
        amount == lamports[self.accounts.vault.key]
        call == [from |-> self.accounts.vault.key,
                 to |-> self.accounts.owner.key,
                 lamports |-> amount,
                 signers |-> signers]
        t == SystemTransfer(lamports, self.accounts.vault,
                            self.accounts.owner, amount, signers)
    IN  IF t.ok THEN Outcome("Ok", t.val, <<call>>)
        ELSE Outcome(t.err, lamports, <<call>>)

\* ------------------------------------------------------------ entrypoint
\* Variant: every opcode other than 0 is taken for a Withdraw.
Dispatch_DefaultWithdraw(accounts, instruction_data) ==
    IF instruction_data # <<>> /\ Head(instruction_data) = 0
    THEN LET d == Deposit_try_from(Tail(instruction_data), accounts)
         IN  IF d.ok THEN Deposit_process(d.val)
             ELSE Outcome(d.err, lamports, <<>>)
    ELSE IF instruction_data # <<>>
    THEN LET w == Withdraw_try_from(accounts)
         IN  IF w.ok THEN Withdraw_process(w.val)
             ELSE Outcome(w.err, lamports, <<>>)
    ELSE Outcome("InvalidInstructionData", lamports, <<>>)

\* process_instruction: dispatch on the first byte of the data
Dispatch(accounts, instruction_data) ==
    IF instruction_data # <<>> /\ Head(instruction_data) = 0
    THEN LET d == Deposit_try_from(Tail(instruction_data), accounts)
         IN  IF d.ok THEN Deposit_process(d.val)
             ELSE Outcome(d.err, lamports, <<>>)
    ELSE IF instruction_data # <<>> /\ Head(instruction_data) = 1
    THEN LET w == Withdraw_try_from(accounts)
         IN  IF w.ok THEN Withdraw_process(w.val)
             ELSE Outcome(w.err, lamports, <<>>)
    ELSE Outcome("InvalidInstructionData", lamports, <<>>)

\* One request, processed atomically by the host.
process_instruction(accounts, instruction_data) ==
    LET out == Dispatch(accounts, instruction_data)
    IN  /\ lamports' = out.lamports
        /\ result' = out.result
        /\ cpi' = out.cpi
        /\ before' = lamports
        /\ request' = [accounts |-> accounts, data |-> instruction_data]
        /\ lastDeposit' =
              IF out.result = "Ok" /\ instruction_data # <<>>
                    /\ Head(instruction_data) = 0
              THEN [lastDeposit EXCEPT ![accounts[1].key] =
                                    from_le_bytes(Tail(instruction_data))]
              ELSE lastDeposit
        /\ UNCHANGED acctOwner

Next ==
    \E accounts \in AccountLists, instruction_data \in InstructionData :
        process_instruction(accounts, instruction_data)

Spec == Init /\ [][Next]_vars

\* ------------------------------------------------------------ vocabulary
\* The error each check reports, under the name the design gives it.
Unauthorized == "InvalidAccountOwner"
InvalidOwnership == "InvalidAccountOwner"
AlreadyInitialized == "InvalidAccountData"
AddressMismatch == "InvalidAccountOwner"

IsDeposit(req) == req.data # <<>> /\ Head(req.data) = 0
IsWithdraw(req) == req.data # <<>> /\ Head(req.data) = 1
\* The request has the three accounts (owner, vault, third).
ThreeAccounts(req) == Len(req.accounts) = 3
OwnerSlot(req) == req.accounts[1]
VaultSlot(req) == req.accounts[2]

\* The request is a Deposit whose payload encodes the amount a.
DepositOf(req, a) == IsDeposit(req) /\ Tail(req.data) = to_le_bytes(a)

\* Every balance except those of the accounts in S is as it was before the
\* last request.
SameExcept(S) == \A a \in Accounts \ S : lamports[a] = before[a]

\* ---------------------------------------------------------------- claims

\* C1: the balance of the vault derived from owner O decreases only in a
\* Withdraw request whose owner account is O, marked as signer, and all
\* that leaves the vault is credited to O's account and to no other.
C1_VaultDecreasesOnlyToOwner ==
    \A k \in Wallets :
        lamports[VaultOf(k)] < before[VaultOf(k)] =>
            /\ IsWithdraw(request)
            /\ ThreeAccounts(request)
            /\ OwnerSlot(request) = AccountInfo(k, TRUE)
            /\ lamports[k] =
                  before[k] + (before[VaultOf(k)] - lamports[VaultOf(k)])
            /\ SameExcept({k, VaultOf(k)})

C1_Witness ==
    /\ IsWithdraw(request)
    /\ result = "Ok"
    /\ before[VaultOf(2)] = 258
    /\ lamports[VaultOf(2)] = 0
    /\ lamports[VaultOf(1)] = 1

\* C2: a successful Deposit by owner O with payload amount A moves exactly
\* A from O to the vault derived from O: O's balance decreases by A, the
\* vault goes from 0 to A, no other balance moves, and the only signature
\* the request and its transfer carry is O's.
C2_DepositMovesExactlyAmount ==
    (IsDeposit(request) /\ result = "Ok") =>
        \E a \in Amounts \ {0} :
            LET o == OwnerSlot(request).key
            IN  /\ DepositOf(request, a)
                /\ VaultSlot(request).key = VaultOf(o)
                /\ lamports[o] = before[o] - a
                /\ before[VaultOf(o)] = 0
                /\ lamports[VaultOf(o)] = a
                /\ SameExcept({o, VaultOf(o)})
                /\ OwnerSlot(request).is_signer
                /\ \A i \in 2..Len(request.accounts) :
                      ~request.accounts[i].is_signer
                /\ cpi = <<[from |-> o, to |-> VaultOf(o), lamports |-> a,
                            signers |-> <<>>]>>

C2_Witness ==
    /\ DepositOf(request, 258)
    /\ result = "Ok"
    /\ OwnerSlot(request).key = 1
    /\ lamports[VaultOf(1)] = 258

\* C3: a successful Withdraw moves the vault's entire balance B, whatever
\* B is: afterwards the vault holds 0 and the owner holds B more.
C3_WithdrawMovesEntireBalance ==
    (IsWithdraw(request) /\ result = "Ok") =>
        LET o == OwnerSlot(request).key
            v == VaultSlot(request).key
        IN  /\ lamports[v] = 0
            /\ lamports[o] = before[o] + before[v]
            /\ SameExcept({o, v})

C3_Witness ==
    /\ IsWithdraw(request)
    /\ result = "Ok"
    /\ before[VaultSlot(request).key] = 258
    /\ lamports[VaultSlot(request).key] = 0

\* C4: round trip.  A successful Deposit of A > 0 by owner O followed by a
\* successful Withdraw by O leaves the vault at 0 and raises O's balance by
\* exactly A over its balance after the Deposit, which is its balance
\* before the Deposit.
C4_RoundTrip ==
    [][\A k \in Wallets, a \in Amounts \ {0} :
          ( /\ DepositOf(request, a) /\ result = "Ok"
            /\ OwnerSlot(request).key = k
            /\ IsWithdraw(request') /\ result' = "Ok"
            /\ OwnerSlot(request').key = k )
          => /\ lamports'[VaultOf(k)] = 0
             /\ lamports'[k] = lamports[k] + a
             /\ lamports'[k] = before[k]]_vars

C4_Witness ==
    /\ IsWithdraw(request)
    /\ result = "Ok"
    /\ OwnerSlot(request).key = 1
    /\ lastDeposit[1] = 258
    /\ before[VaultOf(1)] = 258
    /\ before[1] = InitLamports - 258
    /\ lamports[1] = InitLamports

\* C5: no double deposit.  Right after a successful Deposit into a vault, a
\* second Deposit with three accounts and a signing owner that targets the
\* same vault fails with AlreadyInitialized whatever its payload (any
\* amount, zero, or a payload of the wrong length), and moves nothing.
C5_NoDoubleDeposit ==
    [][( /\ IsDeposit(request) /\ result = "Ok"
         /\ IsDeposit(request')
         /\ ThreeAccounts(request')
         /\ OwnerSlot(request').is_signer
         /\ VaultSlot(request').key = VaultSlot(request).key )
       => /\ result' = AlreadyInitialized
          /\ lamports' = lamports
          /\ cpi' = <<>>]_vars

C5_Witness ==
    /\ DepositOf(request, 1)
    /\ ThreeAccounts(request)
    /\ OwnerSlot(request) = AccountInfo(1, TRUE)
    /\ VaultSlot(request).key = VaultOf(1)
    /\ lastDeposit[1] = 258
    /\ lamports[VaultOf(1)] = 258
    /\ result = AlreadyInitialized

\* C6: withdraw authorization.  A Withdraw aimed at the vault derived from
\* O that carries the signature of X # O and not that of O fails with the
\* error of a missing authorization and moves nothing, whether the owner
\* account presented is X's own (signed) or O's (unsigned).
C6_WithdrawAuthorization ==
    \A o \in Wallets : \A x \in Wallets \ {o} :
        ( /\ IsWithdraw(request)
          /\ ThreeAccounts(request)
          /\ VaultSlot(request).key = VaultOf(o)
          /\ OwnerSlot(request) \in
                {AccountInfo(x, TRUE), AccountInfo(o, FALSE)} )
        => /\ result = Unauthorized
           /\ lamports = before
           /\ cpi = <<>>

C6_Witness ==
    /\ IsWithdraw(request)
    /\ ThreeAccounts(request)
    /\ VaultSlot(request).key = VaultOf(1)
    /\ OwnerSlot(request) = AccountInfo(2, TRUE)
    /\ lamports[VaultOf(1)] = 258
    /\ result = Unauthorized

\* C7: a Deposit (owner, vault, third) whose owner account is not marked as
\* signer fails with Unauthorized and leaves every balance, the vault's
\* included, unchanged.
C7_DepositRequiresSigner ==
    ( /\ IsDeposit(request)
      /\ ThreeAccounts(request)
      /\ ~OwnerSlot(request).is_signer )
    => /\ result = Unauthorized
       /\ lamports = before
       /\ cpi = <<>>

C7_Witness ==
    /\ DepositOf(request, 258)
    /\ OwnerSlot(request) = AccountInfo(1, FALSE)
    /\ VaultSlot(request).key = VaultOf(1)
    /\ before[VaultOf(1)] = 0
    /\ result = Unauthorized

\* The deposit of a signing owner targets an account that is not the
\* address derived from the owner.
DepositToOtherAccount ==
    /\ IsDeposit(request)
    /\ ThreeAccounts(request)
    /\ OwnerSlot(request).is_signer
    /\ VaultSlot(request).key # VaultOf(OwnerSlot(request).key)

\* C8 as stated: such a Deposit fails with AddressMismatch whatever the
\* balance and the controlling program of the targeted account.
C8_AddressMismatchAlways ==
    DepositToOtherAccount => result = AddressMismatch

\* C8 as the code has it: such a Deposit fails and moves nothing; the error
\* is AlreadyInitialized when the targeted account is controlled by the
\* system program and holds lamports (that check comes first), and the
\* error of the address check otherwise.
C8_AddressCheckAfterBalance ==
    DepositToOtherAccount =>
        LET v == VaultSlot(request).key
        IN  /\ lamports = before
            /\ cpi = <<>>
            /\ result = IF acctOwner[v] = SYSTEM_ID /\ before[v] # 0
                        THEN AlreadyInitialized
                        ELSE AddressMismatch

C8_Witness ==
    /\ DepositToOtherAccount
    /\ DepositOf(request, 1)
    /\ OwnerSlot(request).key = 1
    /\ VaultSlot(request).key = VaultOf(2)
    /\ before[VaultOf(2)] = 0
    /\ result = AddressMismatch

\* The checks of the last request, spelled out on the balances it found:
\* some check of its handler fails.
FailsSomeCheck ==
    LET o == OwnerSlot(request)
        v == VaultSlot(request)
        payload == Tail(request.data)
        accountsFail ==
            \/ ~ThreeAccounts(request)
            \/ ~o.is_signer
            \/ acctOwner[v.key] # SYSTEM_ID
            \/ v.key # VaultOf(o.key)
    IN  IF IsDeposit(request)
        THEN \/ accountsFail
             \/ before[v.key] # 0
             \/ Len(payload) # 8
             \/ \A i \in 1..Len(payload) : payload[i] = 0
        ELSE IF IsWithdraw(request) THEN accountsFail
        ELSE TRUE

\* C9: a request that fails any check leaves every balance unchanged and
\* invokes no transfer; every request invokes the transfer at most once,
\* only when all its checks passed, and a request that fails in any way
\* (the transfer included) leaves every balance unchanged.
C9_NoPartialEffect ==
    (result # "None") =>
        /\ Len(cpi) <= 1
        /\ FailsSomeCheck =>
              (result # "Ok" /\ lamports = before /\ cpi = <<>>)
        /\ (result # "Ok") => (lamports = before)

C9_Witness ==
    /\ DepositOf(request, 0)
    /\ ThreeAccounts(request)
    /\ OwnerSlot(request) = AccountInfo(2, TRUE)
    /\ VaultSlot(request).key = VaultOf(2)
    /\ before[VaultOf(2)] = 0
    /\ lamports[VaultOf(1)] = 258
    /\ result = "InvalidInstructionData"
    /\ cpi = <<>>

\* C10: the balance of every vault is 0 or the amount of the last
\* successful Deposit of its owner, and it changes only from 0 to that
\* amount (by that Deposit) or from the amount to 0 (by a Withdraw).
C10_VaultZeroOrLastDeposit ==
    \A k \in Wallets :
        LET v == VaultOf(k)
        IN  /\ lamports[v] \in {0, lastDeposit[k]}
            /\ (lamports[v] # before[v]) =>
                  \/ /\ before[v] = 0
                     /\ lamports[v] = lastDeposit[k]
                     /\ IsDeposit(request) /\ result = "Ok"
                  \/ /\ before[v] = lastDeposit[k]
                     /\ lamports[v] = 0
                     /\ IsWithdraw(request) /\ result = "Ok"

C10_Witness ==
    /\ lastDeposit[1] = 1
    /\ lamports[VaultOf(1)] = 1
    /\ lastDeposit[2] = 258
    /\ lamports[VaultOf(2)] = 0

\* ------------------------------------------------- the checks, one by one
InvalidAmount == "InvalidInstructionData"
MalformedAccounts == "NotEnoughAccountKeys"
MalformedPayload == "InvalidInstructionData"
UnknownOperation == "InvalidInstructionData"

\* The checks in the order each handler runs them.
DepositChecks ==
    <<"count", "signer", "ownership", "balance", "address", "length",
      "amount">>
WithdrawChecks == <<"count", "signer", "ownership", "address">>
AllChecks ==
    {"count", "signer", "ownership", "balance", "address", "length",
     "amount", "opcode"}

\* The error value the code returns when the check fails.
ErrorOf(c) ==
    CASE c = "count" -> MalformedAccounts
      [] c = "signer" -> Unauthorized
      [] c = "ownership" -> InvalidOwnership
      [] c = "balance" -> AlreadyInitialized
      [] c = "address" -> AddressMismatch
      [] c = "length" -> MalformedPayload
      [] c = "amount" -> InvalidAmount
      [] c = "opcode" -> UnknownOperation

\* The error of the design's taxonomy the check stands for.
TaxonomyOf(c) ==
    CASE c = "count" -> "MalformedRequest"
      [] c = "signer" -> "Unauthorized"
      [] c = "ownership" -> "InvalidOwnership"
      [] c = "balance" -> "AlreadyInitialized"
      [] c = "address" -> "AddressMismatch"
      [] c = "length" -> "MalformedRequest"
      [] c = "amount" -> "InvalidAmount"
      [] c = "opcode" -> "UnknownOperation"

\* Whether the check fails on the last request and the balances it found.
CheckFails(c) ==
    CASE c = "count" -> ~ThreeAccounts(request)
      [] c = "signer" -> ~OwnerSlot(request).is_signer
      [] c = "ownership" -> acctOwner[VaultSlot(request).key] # SYSTEM_ID
      [] c = "balance" -> before[VaultSlot(request).key] # 0
      [] c = "address" ->
            VaultSlot(request).key # VaultOf(OwnerSlot(request).key)
      [] c = "length" -> Len(Tail(request.data)) # 8
      [] c = "amount" ->
            \A i \in 1..Len(request.data) - 1 : request.data[i + 1] = 0
      [] c = "opcode" -> ~IsDeposit(request) /\ ~IsWithdraw(request)

\* The first check of the sequence that fails, "none" when all pass.
FirstFailing(checks) ==
    LET failing == {i \in 1..Len(checks) : CheckFails(checks[i])}
    IN  IF failing = {} THEN "none"
        ELSE checks[CHOOSE i \in failing : \A j \in failing : i <= j]

\* C11 as stated: the error of a request that failed a check identifies
\* the check, the seven errors of the taxonomy being distinct values: the
\* value reported stands for one error of the taxonomy only.
C11_ErrorIdentifiesCheck ==
    (result # "None" /\ FailsSomeCheck) =>
        Cardinality({TaxonomyOf(c) : c \in {d \in AllChecks :
                                              ErrorOf(d) = result}}) = 1

\* C14: the checks run in a fixed order and the first that fails decides
\* the error: count, signer, ownership, zero balance, address, payload
\* length, amount for Deposit; count, signer, ownership, address for
\* Withdraw.  The transfer is reached only when none fails.
C14_FirstFailingCheckDecides ==
    (IsDeposit(request) \/ IsWithdraw(request)) =>
        LET f == FirstFailing(IF IsDeposit(request) THEN DepositChecks
                              ELSE WithdrawChecks)
        IN  IF f = "none" THEN Len(cpi) = 1
            ELSE result = ErrorOf(f) /\ cpi = <<>> /\ lamports = before

\* A Deposit whose accounts and payload are both invalid reports the
\* account error.
C14_Witness ==
    /\ DepositOf(request, 0)
    /\ ThreeAccounts(request)
    /\ OwnerSlot(request) = AccountInfo(1, TRUE)
    /\ VaultSlot(request).key = VaultOf(1)
    /\ before[VaultOf(1)] = 258
    /\ result = AlreadyInitialized

\* The accounts of the last request pass every account check of Deposit.
DepositAccountsValid ==
    /\ ThreeAccounts(request)
    /\ OwnerSlot(request).is_signer
    /\ acctOwner[VaultSlot(request).key] = SYSTEM_ID
    /\ before[VaultSlot(request).key] = 0
    /\ VaultSlot(request).key = VaultOf(OwnerSlot(request).key)

\* C12: a Deposit whose payload is eight zero bytes never succeeds and
\* moves nothing, and with accounts that pass their checks it fails with
\* InvalidAmount; a Deposit succeeds only with a payload of exactly eight
\* bytes that encode, little-endian, an amount greater than 0.
C12_ZeroAmountRejected ==
    IsDeposit(request) =>
        /\ (Tail(request.data) = <<0, 0, 0, 0, 0, 0, 0, 0>>) =>
              /\ result # "Ok"
              /\ lamports = before
              /\ cpi = <<>>
              /\ DepositAccountsValid => (result = InvalidAmount)
        /\ (result = "Ok") =>
              /\ Len(Tail(request.data)) = 8
              /\ \E a \in Amounts \ {0} :
                    /\ Tail(request.data) = to_le_bytes(a)
                    /\ cpi[1].lamports = a

C12_Witness ==
    /\ IsDeposit(request)
    /\ Tail(request.data) = <<0, 0, 0, 0, 0, 0, 0, 0>>
    /\ DepositAccountsValid
    /\ OwnerSlot(request).key = 1
    /\ result = InvalidAmount
    /\ lamports[1] = InitLamports

\* C13: a request whose first data byte is neither 0 nor 1, or whose data
\* is empty, fails with UnknownOperation and touches no account, whatever
\* its accounts and the bytes after the opcode.
C13_UnknownOpcodeRejected ==
    (result # "None" /\ ~IsDeposit(request) /\ ~IsWithdraw(request)) =>
        /\ result = UnknownOperation
        /\ lamports = before
        /\ cpi = <<>>

C13_Witness ==
    /\ request.data = <<2>> \o to_le_bytes(1)
    /\ ThreeAccounts(request)
    /\ OwnerSlot(request) = AccountInfo(1, TRUE)
    /\ VaultSlot(request).key = VaultOf(1)
    /\ lamports[VaultOf(1)] = 258
    /\ result = UnknownOperation

\* C15: in every Withdraw that passes validation the seeds handed to the
\* signed transfer are (tag "vault", the owner account's key, the bump of
\* the derivation), in that order; the address they derive is the vault
\* account the transfer draws from, so the transfer is never refused for
\* its seeds.
C15_WithdrawSeedsDeriveVault ==
    (IsWithdraw(request) /\ cpi # <<>>) =>
        LET o == OwnerSlot(request).key
            pda == find_program_address(<<"vault", o>>, ID)
        IN  /\ Len(cpi) = 1
            /\ cpi[1].signers = << <<"vault", o, pda[2]>> >>
            /\ cpi[1].from = VaultSlot(request).key
            /\ cpi[1].to = o
            /\ HashSeeds(cpi[1].signers[1], ID) = cpi[1].from
            /\ result # "MissingRequiredSignature"
            /\ result = "Ok"

\* The owner whose derivation skips the top bump withdraws.
C15_Witness ==
    /\ IsWithdraw(request)
    /\ result = "Ok"
    /\ OwnerSlot(request).key = 2
    /\ cpi # <<>>
    /\ cpi[1].signers[1][3] = MaxBump - 1
    /\ before[VaultOf(2)] = 258
    /\ lamports[VaultOf(2)] = 0

\* The last request has three accounts, the third of which is not the
\* system program.
OtherThirdAccount ==
    /\ ThreeAccounts(request)
    /\ request.accounts[3] # SystemAccount

\* C16 as stated: Deposit verifies that the third account is the system
\* program and rejects the request otherwise, while a Withdraw whose other
\* checks pass goes through to its transfer whatever the third account.
C16_DepositVerifiesThirdAccount ==
    /\ (IsDeposit(request) /\ OtherThirdAccount) =>
          (result # "Ok" /\ cpi = <<>>)
    /\ (IsWithdraw(request) /\ OtherThirdAccount
            /\ FirstFailing(WithdrawChecks) = "none") => (Len(cpi) = 1)

\* C16 as the code has it: neither Deposit nor Withdraw looks at the third
\* account; with any third account a request whose other checks pass goes
\* through to its transfer.
C16_ThirdAccountUnchecked ==
    OtherThirdAccount =>
        /\ (IsDeposit(request) /\ FirstFailing(DepositChecks) = "none")
              => (Len(cpi) = 1)
        /\ (IsWithdraw(request) /\ FirstFailing(WithdrawChecks) = "none")
              => (Len(cpi) = 1)

C16_Witness ==
    /\ DepositOf(request, 258)
    /\ OtherThirdAccount
    /\ request.accounts[3].key \in Strays
    /\ OwnerSlot(request) = AccountInfo(1, TRUE)
    /\ VaultSlot(request).key = VaultOf(1)
    /\ before[VaultOf(1)] = 0
    /\ Len(cpi) = 1

\* C17: owner isolation.  A request whose owner account is O1, whatever
\* its outcome, leaves the balance of any other owner O2 and of the vault
\* derived from O2 unchanged; the two vaults are different accounts, and
\* the vault derived from O2 gains lamports only in a Deposit whose owner
\* account is O2, signed.
C17_OwnerIsolation ==
    (result # "None") =>
        \A o1 \in Wallets : \A o2 \in Wallets \ {o1} :
            /\ VaultOf(o1) # VaultOf(o2)
            /\ (OwnerSlot(request).key = o1) =>
                  /\ lamports[o2] = before[o2]
                  /\ lamports[VaultOf(o2)] = before[VaultOf(o2)]
            /\ (lamports[VaultOf(o2)] > before[VaultOf(o2)]) =>
                  /\ IsDeposit(request)
                  /\ OwnerSlot(request) = AccountInfo(o2, TRUE)

\* Owner 1 tries to deposit into the empty vault of owner 2.
C17_Witness ==
    /\ DepositOf(request, 1)
    /\ ThreeAccounts(request)
    /\ OwnerSlot(request) = AccountInfo(1, TRUE)
    /\ VaultSlot(request).key = VaultOf(2)
    /\ before[VaultOf(2)] = 0
    /\ lamports[VaultOf(2)] = 0
    /\ lamports[VaultOf(1)] = 258
    /\ result # "Ok"

\* The request of owner k on its own vault, the system program third.
OwnRequest(k) ==
    <<AccountInfo(k, TRUE), AccountInfo(VaultOf(k), FALSE), SystemAccount>>

\* C18: funds are always recoverable.  In every reachable state, whatever
\* requests from whatever callers led to it, if the vault derived from O
\* holds B > 0 then the Withdraw (O signing, O's vault, the system
\* program) passes validation and succeeds, handing B to O.
C18_FundsRecoverable ==
    \A k \in Wallets :
        (lamports[VaultOf(k)] > 0) =>
            LET out == Dispatch(OwnRequest(k), <<1>>)
            IN  /\ out.result = "Ok"
                /\ Len(out.cpi) = 1
                /\ out.lamports[VaultOf(k)] = 0
                /\ out.lamports[k] = lamports[k] + lamports[VaultOf(k)]

\* The other wallet has just tried to withdraw from the funded vault of 2.
C18_Witness ==
    /\ IsWithdraw(request)
    /\ ThreeAccounts(request)
    /\ OwnerSlot(request) = AccountInfo(1, TRUE)
    /\ VaultSlot(request).key = VaultOf(2)
    /\ result # "Ok"
    /\ lamports[VaultOf(2)] = 258
    /\ lamports[VaultOf(1)] = 1

\* C19: the deposit-time check looks at the current balance only.  In
\* every state where the vault derived from O holds 0, and in particular
\* after a successful Deposit and a successful Withdraw, a Deposit by O of
\* an amount A > 0 that O can pay succeeds and leaves the vault with A.
C19_RedepositAccepted ==
    \A k \in Wallets :
        (lamports[VaultOf(k)] = 0) =>
            \A a \in Amounts \ {0} :
                (a <= lamports[k]) =>
                    LET out == Dispatch(OwnRequest(k),
                                        <<0>> \o to_le_bytes(a))
                    IN  /\ out.result = "Ok"
                        /\ out.lamports[VaultOf(k)] = a
                        /\ out.lamports[k] = lamports[k] - a

\* The vault of 2 was deposited into and has just been emptied.
C19_Witness ==
    /\ IsWithdraw(request)
    /\ result = "Ok"
    /\ OwnerSlot(request).key = 2
    /\ lastDeposit[2] = 1
    /\ before[VaultOf(2)] = 1
    /\ lamports[VaultOf(2)] = 0
    /\ lamports[2] = InitLamports

\* C20: a Withdraw by signing owner O against O's derived vault holding 0
\* passes validation, issues a signed transfer of 0 lamports, reports
\* success and leaves every balance unchanged; and repeating a successful
\* Withdraw succeeds again and changes nothing.
C20_WithdrawOfEmptyVault ==
    IsWithdraw(request) =>
        /\ (FirstFailing(WithdrawChecks) = "none"
                /\ before[VaultSlot(request).key] = 0) =>
              /\ result = "Ok"
              /\ lamports = before
              /\ Len(cpi) = 1
              /\ cpi[1].lamports = 0
              /\ cpi[1].from = VaultSlot(request).key
              /\ cpi[1].signers # <<>>
        /\ (result = "Ok") =>
              LET out == Dispatch(request.accounts, request.data)
              IN  /\ out.result = "Ok"
                  /\ out.lamports = lamports

\* The vault of 1 was never deposited into.
C20_Witness ==
    /\ IsWithdraw(request)
    /\ result = "Ok"
    /\ OwnerSlot(request).key = 1
    /\ lastDeposit[1] = 0
    /\ before[VaultOf(1)] = 0
    /\ cpi # <<>>
    /\ cpi[1].lamports = 0
    /\ lamports[VaultOf(2)] = 258

====
